---------------------------- MODULE Spec2Model ----------------------------
(***************************************************************************)
(* Model of src/src/App.tsx: the App component's selection state machine   *)
(* (type -> version -> build, with the two auto-select effects and the SWR *)
(* catalog cache) and its jar-drop fingerprint flow (window drag/drop      *)
(* listeners, FileReader, digest, apiGetBuild, the drop Drawer).           *)
(*                                                                         *)
(* The two halves share no state in the source: the drop listeners and the *)
(* drop Drawer write only isDragging, isJarDropLoading and jarDropBuild;   *)
(* everything else writes only the other variables.  Spec is their         *)
(* product; SpecSelect, SpecReconcile and SpecDrop run one half at a time. *)
(***************************************************************************)
EXTENDS Integers, Sequences, FiniteSets, TLC

VARIABLES
    includeSnapshots,   \* useQueryParam('snapshots'): "undefined" | "true" | "false"
    type,               \* useQueryParam('type')
    version,            \* useQueryParam('version')
    build,              \* useState<PartialMinecraftBuild>()
    isDragging,         \* useState(false)
    isJarDropLoading,   \* useState(false)
    jarDropBuild,       \* useState<PartialMinecraftBuild>()
    types,              \* SWR data of ['types']
    versionsCache,      \* SWR data of ['versions', t], per t
    buildsCache,        \* SWR data of ['builds', t, v], per <<t, v>>
    versionsPending,    \* keys t whose apiGetVersions(t) is in flight
    buildsPending,      \* keys <<t, v>> whose apiGetBuilds(t, v) is in flight
    crashed,            \* an effect threw: React unmounted the tree
    tasks,              \* one entry per drop that carried a file: the file, how
                        \* far its onload got, and whether an earlier drop was
                        \* still outstanding when it was dropped
    ev                  \* the last event handled, with the selection and the
                        \* open build before it

vars == <<includeSnapshots, type, version, build, isDragging, isJarDropLoading,
          jarDropBuild, types, versionsCache, buildsCache, versionsPending,
          buildsPending, crashed, tasks, ev>>

selectVars == <<includeSnapshots, type, version, build, types, versionsCache,
                buildsCache, versionsPending, buildsPending, crashed>>

dropVars == <<isDragging, isJarDropLoading, jarDropBuild, tasks>>

----------------------------------------------------------------------------
(* Bounds *)

MaxTypes == 2       \* longest types list a response carries
MaxVersions == 2    \* longest version list a response carries
MaxBuilds == 1      \* builds per (type, version) in the catalog
MaxDrops == 2       \* drops carrying a file in one behaviour
MaxFiles == 1       \* files in one drop payload

----------------------------------------------------------------------------
(* Values *)

Null == "<undefined>"           \* undefined / null of a string-valued slot

TypeIds == {"vanilla", "velocity"}
VersionIds == {"1.21", "1.21-pre1"}
ProjectVersionIds == {"3.3.0"}
AllVersionIds == VersionIds \cup ProjectVersionIds
Tags == {"RELEASE", "SNAPSHOT", Null}

\* A Version of the catalog: exactly one of latest.versionId and
\* latest.projectVersionId is populated.
Version ==
    { [type |-> g, latest |-> [versionId |-> i, projectVersionId |-> Null]] :
        g \in Tags, i \in VersionIds }
    \cup
    { [type |-> g, latest |-> [versionId |-> Null, projectVersionId |-> p]] :
        g \in Tags, p \in ProjectVersionIds }

SeqsUpTo(S, n) == UNION { [1..k -> S] : k \in 0..n }

\* A Type of the catalog, reduced to its identifier.
Type == { [identifier |-> t] : t \in TypeIds }

TypeLists == SeqsUpTo(Type, MaxTypes)
VersionLists == SeqsUpTo(Version, MaxVersions)

\* PartialMinecraftBuild, reduced to the fields that tie it to a selection.
MkBuild(i, t, v) ==
    [id |-> i, type |-> t,
     versionId |-> IF v \in VersionIds THEN v ELSE Null,
     projectVersionId |-> IF v \in ProjectVersionIds THEN v ELSE Null]

NoBuild == MkBuild(0, Null, Null)       \* useState's undefined

NoData == [has |-> FALSE, data |-> <<>>]    \* SWR data === undefined
Data(l) == [has |-> TRUE, data |-> l]

BuildKeys == TypeIds \X AllVersionIds

Falsy(x) == x = Null

----------------------------------------------------------------------------
(* The catalog SpecSelect answers from *)

CatalogTypes == << [identifier |-> "vanilla"], [identifier |-> "velocity"] >>

CatalogVersions(t) ==
    IF t = "vanilla"
    THEN << [type |-> "SNAPSHOT", latest |-> [versionId |-> "1.21-pre1", projectVersionId |-> Null]],
            [type |-> "RELEASE",  latest |-> [versionId |-> "1.21", projectVersionId |-> Null]] >>
    ELSE << [type |-> Null, latest |-> [versionId |-> Null, projectVersionId |-> "3.3.0"]] >>


\* The versions the catalog holds under type t, by derived identifier.
CatalogVersionIds(t) ==
    { IF CatalogVersions(t)[i].latest.versionId # Null
      THEN CatalogVersions(t)[i].latest.versionId
      ELSE CatalogVersions(t)[i].latest.projectVersionId :
        i \in 1..Len(CatalogVersions(t)) }

KeyOrder == << <<"vanilla", "1.21-pre1">>, <<"vanilla", "1.21">>, <<"velocity", "3.3.0">> >>

KeyNo(k) == CHOOSE n \in 1..Len(KeyOrder) : KeyOrder[n] = k

\* The builds of a (type, version) pair; a pair the catalog does not hold
\* has none.
CatalogBuilds(k) ==
    IF k[2] \in CatalogVersionIds(k[1])
    THEN [i \in 1..MaxBuilds |-> MkBuild((KeyNo(k) - 1) * MaxBuilds + i, k[1], k[2])]
    ELSE <<>>

----------------------------------------------------------------------------
(* Selection state machine: pure parts *)

\* v.latest.versionId ?? v.latest.projectVersionId
DerivedId(v) ==
    IF v.latest.versionId # Null THEN v.latest.versionId ELSE v.latest.projectVersionId

\* versions.find((v) => derived(v) === version), as a truth value
Find(versions, id) ==
    \E i \in 1..Len(versions) : DerivedId(versions[i]) = id

\* (v) => v.type === 'RELEASE' || !v.type
ReleaseLike(v) == v.type = "RELEASE" \/ Falsy(v.type)

RECURSIVE FindIndexFrom(_, _)
FindIndexFrom(versions, i) ==
    IF i > Len(versions) THEN -1
    ELSE IF ReleaseLike(versions[i]) THEN i - 1
    ELSE FindIndexFrom(versions, i + 1)

\* FindIndex without the release-precedence predicate: the first entry.
FindIndexFirstEntry(versions) == IF Len(versions) = 0 THEN -1 ELSE 0

\* versions.findIndex(...): 0-based, -1 when no entry matches
FindIndex(versions) == FindIndexFrom(versions, 1)

\* list[i] of a 0-based index exists
InRange(list, i) == 0 <= i /\ i < Len(list)

\* VersionEffect that reads latest.versionId alone, without the fallback to
\* latest.projectVersionId.
VersionEffectVersionIdOnly(versions, id) ==
    IF versions.has /\ ~Find(versions.data, id)
    THEN LET index == FindIndex(versions.data) IN
         IF InRange(versions.data, index)
         THEN [version |-> versions.data[index + 1].latest.versionId, crashed |-> FALSE]
         ELSE [version |-> id, crashed |-> TRUE]
    ELSE [version |-> id, crashed |-> FALSE]

\* The version auto-select effect, run once on (versions, version):
\* the version it leaves and whether it threw a TypeError.
VersionEffect(versions, id) ==
    IF versions.has /\ ~Find(versions.data, id)
    THEN LET index == FindIndex(versions.data) IN
         IF InRange(versions.data, index)
         THEN [version |-> DerivedId(versions.data[index + 1]), crashed |-> FALSE]
         ELSE [version |-> id, crashed |-> TRUE]
    ELSE [version |-> id, crashed |-> FALSE]

\* The effect re-runs whenever it changed version (version is one of its
\* dependencies), until it changes nothing or throws.
RECURSIVE VersionEffectFix(_, _)
VersionEffectFix(versions, id) ==
    LET r == VersionEffect(versions, id) IN
    IF r.crashed \/ r.version = id THEN r
    ELSE VersionEffectFix(versions, r.version)

\* TypeEffect without its !type condition.
TypeEffectUnguarded(ts, t) ==
    IF ts.has
    THEN IF InRange(ts.data, 0)
         THEN [type |-> ts.data[1].identifier, crashed |-> FALSE]
         ELSE [type |-> t, crashed |-> TRUE]
    ELSE [type |-> t, crashed |-> FALSE]

\* The type auto-select effect, run when types changed.
TypeEffect(ts, t) ==
    IF ts.has /\ Falsy(t)
    THEN IF InRange(ts.data, 0)
         THEN [type |-> ts.data[1].identifier, crashed |-> FALSE]
         ELSE [type |-> t, crashed |-> TRUE]
    ELSE [type |-> t, crashed |-> FALSE]

\* VersionsOf that falls back to whatever response is cached when the
\* current key has none, as if data were not keyed.
VersionsOfAnyKey(vc, t) ==
    IF Falsy(t) THEN NoData
    ELSE IF vc[t].has THEN vc[t]
    ELSE IF \E u \in DOMAIN vc : vc[u].has
         THEN vc[CHOOSE u \in DOMAIN vc : vc[u].has]
         ELSE NoData

\* SWR data of ['versions', t]: the fetcher of an unset type yields undefined.
VersionsOf(vc, t) == IF Falsy(t) THEN NoData ELSE vc[t]

\* SWR data of ['builds', t, v]
BuildsOf(bc, t, v) == IF Falsy(t) \/ Falsy(v) THEN NoData ELSE bc[<<t, v>>]

\* VersionsRequests whose fetcher calls apiGetVersions without testing type.
VersionsRequestsUnguarded(vc, vp, t) ==
    IF Falsy(t) THEN vp \cup {t}
    ELSE IF ~vc[t].has THEN vp \cup {t} ELSE vp

\* Requests a render with selection (t, v) starts: one per key that has a
\* resolved parameter list, no data and no request in flight.
VersionsRequests(vc, vp, t) ==
    IF ~Falsy(t) /\ ~vc[t].has THEN vp \cup {t} ELSE vp

BuildsRequests(bc, bp, t, v) ==
    IF ~Falsy(t) /\ ~Falsy(v) /\ ~bc[<<t, v>>].has THEN bp \cup {<<t, v>>} ELSE bp


----------------------------------------------------------------------------
(* Selection state machine: handlers *)

Event(op, key, n) ==
    [op |-> op, key |-> key, type |-> type, version |-> version, build |-> build,
     n |-> n]

\* What follows a handler that left selection (t1, v1), types ts1 and caches
\* vc1, bc1: the render commits, the effects whose dependencies changed run
\* (the type effect only when types changed), each write re-renders, and
\* every committed render starts the requests of its keys.
Render(t1, v1, ts1, vc1, bc1, vp1, bp1, typesChanged) ==
    LET te == IF typesChanged THEN TypeEffect(ts1, t1)
              ELSE [type |-> t1, crashed |-> FALSE]
        t2 == te.type
        ve == IF te.crashed THEN [version |-> v1, crashed |-> TRUE]
              ELSE VersionEffectFix(VersionsOf(vc1, t2), v1)
        v2 == ve.version
    IN  /\ type' = t2
        /\ version' = v2
        /\ types' = ts1
        /\ versionsCache' = vc1
        /\ buildsCache' = bc1
        /\ crashed' = ve.crashed
        /\ versionsPending' =
             VersionsRequests(vc1, VersionsRequests(vc1, vp1, t1), t2)
        /\ buildsPending' =
             BuildsRequests(bc1,
               BuildsRequests(bc1, BuildsRequests(bc1, bp1, t1, v1), t2, v1), t2, v2)

\* The ['types'] request resolves with list T.
TypesArrive(T) ==
    /\ ~crashed
    /\ ~types.has
    /\ Render(type, version, Data(T), versionsCache, buildsCache,
              versionsPending, buildsPending, TRUE)
    /\ ev' = Event("TypesArrive", Null, 0)
    /\ UNCHANGED <<includeSnapshots, build, dropVars>>

\* The ['versions', t] request resolves with list V.
VersionsArrive(t, V) ==
    /\ ~crashed
    /\ t \in versionsPending
    /\ Render(type, version, types, [versionsCache EXCEPT ![t] = Data(V)],
              buildsCache, versionsPending \ {t}, buildsPending, FALSE)
    /\ ev' = Event("VersionsArrive", t, 0)
    /\ UNCHANGED <<includeSnapshots, build, dropVars>>

\* The ['builds', t, v] request of key k resolves with list B.
BuildsArrive(k, B) ==
    /\ ~crashed
    /\ k \in buildsPending
    /\ Render(type, version, types, versionsCache,
              [buildsCache EXCEPT ![k] = Data(B)],
              versionsPending, buildsPending \ {k}, FALSE)
    /\ ev' = Event("BuildsArrive", k[1], 0)
    /\ UNCHANGED <<includeSnapshots, build, dropVars>>

\* The user clicks the button of type t: setType(t.identifier).
SelectType(t) ==
    /\ ~crashed
    /\ types.has
    /\ \E i \in 1..Len(types.data) : types.data[i].identifier = t
    /\ t # type
    /\ Render(t, version, types, versionsCache, buildsCache,
              versionsPending, buildsPending, FALSE)
    /\ ev' = Event("SelectType", t, 0)
    /\ UNCHANGED <<includeSnapshots, build, dropVars>>

Truthy(flag) == flag = "true"

\* Shown without the exemption of the selected version.
ShownWithoutSelected(v, id, flag) ==
    \/ Falsy(v.type)
    \/ v.type = "RELEASE"
    \/ (v.type = "SNAPSHOT" /\ Truthy(flag))

\* The filter of the rendered version list.
Shown(v, id, flag) ==
    \/ Falsy(v.type)
    \/ DerivedId(v) = id
    \/ v.type = "RELEASE"
    \/ (v.type = "SNAPSHOT" /\ Truthy(flag))

\* versions.filter(...): the entries the version column renders, in order.
RenderedVersions(versions, id, flag) ==
    LET Test(v) == Shown(v, id, flag) IN SelectSeq(versions, Test)

\* The version column is rendered, not its skeleton.
VersionsRendered ==
    /\ ~Falsy(type)
    /\ type \notin versionsPending
    /\ versionsCache[type].has
    /\ types.has

\* The build column is rendered, not its skeleton.
BuildsRendered ==
    /\ VersionsRendered
    /\ ~Falsy(version)
    /\ <<type, version>> \notin buildsPending
    /\ buildsCache[<<type, version>>].has

\* The user clicks the button of the i-th version of the list.
SelectVersion(i) ==
    /\ ~crashed
    /\ VersionsRendered
    /\ i \in 1..Len(versionsCache[type].data)
    /\ LET v == versionsCache[type].data[i] IN
        /\ Shown(v, version, includeSnapshots)
        /\ DerivedId(v) # version
        /\ Render(type, DerivedId(v), types, versionsCache, buildsCache,
                  versionsPending, buildsPending, FALSE)
    /\ ev' = Event("SelectVersion", type, i)
    /\ UNCHANGED <<includeSnapshots, build, dropVars>>

\* The user clicks "Include Snapshots".
ToggleSnapshots ==
    /\ ~crashed
    /\ VersionsRendered
    /\ \E i \in 1..Len(versionsCache[type].data) :
          versionsCache[type].data[i].type = "SNAPSHOT"
    /\ includeSnapshots' = IF Truthy(includeSnapshots) THEN "false" ELSE "true"
    /\ ev' = Event("ToggleSnapshots", Null, 0)
    /\ UNCHANGED <<type, version, build, types, versionsCache, buildsCache,
                   versionsPending, buildsPending, crashed, dropVars>>

\* The user clicks the button of the i-th build of the list: setBuild(b).
OpenBuild(i) ==
    /\ ~crashed
    /\ BuildsRendered
    /\ i \in 1..Len(buildsCache[<<type, version>>].data)
    /\ LET b == buildsCache[<<type, version>>].data[i] IN
        /\ b.id # build.id
        /\ build' = b
    /\ ev' = Event("OpenBuild", type, i)
    /\ UNCHANGED <<includeSnapshots, type, version, types, versionsCache,
                   buildsCache, versionsPending, buildsPending, crashed, dropVars>>

\* BuildOpenChange whose close also drops the version selection.
BuildOpenChangeClearsVersion(open) ==
    /\ ~crashed
    /\ build' = IF open THEN build ELSE NoBuild
    /\ version' = IF open THEN version ELSE Null
    /\ ev' = Event("BuildOpenChange", Null, IF open THEN 1 ELSE 0)
    /\ UNCHANGED <<includeSnapshots, type, types, versionsCache,
                   buildsCache, versionsPending, buildsPending, crashed, dropVars>>

\* The build Drawer reports an open change: setBuild(open ? build : undefined).
BuildOpenChange(open) ==
    /\ ~crashed
    /\ build' = IF open THEN build ELSE NoBuild
    /\ ev' = Event("BuildOpenChange", Null, IF open THEN 1 ELSE 0)
    /\ UNCHANGED <<includeSnapshots, type, version, types, versionsCache,
                   buildsCache, versionsPending, buildsPending, crashed, dropVars>>


----------------------------------------------------------------------------
(* Fingerprint flow *)

Files == {"F1", "F2", "F3"}

FileLists == SeqsUpTo(Files, MaxFiles)

\* What GET /build/{hash of f} answers: the build that produced f, or
\* NoBuild for a not-found failure.
apiGetBuild(f) ==
    IF f = "F1" THEN MkBuild(1, "vanilla", "1.21")
    ELSE IF f = "F2" THEN MkBuild(2, "velocity", "3.3.0")
    ELSE NoBuild

Reading == "reading"        \* reader.readAsArrayBuffer(file) was called
Digesting == "digesting"    \* onload runs, awaiting crypto.subtle.digest
LookingUp == "lookup"       \* awaiting apiGetBuild(hashHex)
Resolved == "resolved"      \* the try block ran to its end
Failed == "failed"          \* the catch block ran
ReadError == "readError"    \* the read failed: onload never runs
DigestError == "digestError" \* the digest rejected: onload's promise rejects

Outstanding(task) == task.stage \in {Reading, Digesting, LookingUp}

\* dragenter listener
DragEnter ==
    /\ ~crashed
    /\ isDragging' = TRUE
    /\ ev' = Event("DragEnter", Null, 0)
    /\ UNCHANGED <<isJarDropLoading, jarDropBuild, tasks, selectVars>>

\* dragover listener
DragOver ==
    /\ ~crashed
    /\ isDragging' = TRUE
    /\ ev' = Event("DragOver", Null, 0)
    /\ UNCHANGED <<isJarDropLoading, jarDropBuild, tasks, selectVars>>

\* dragleave listener
DragLeave ==
    /\ ~crashed
    /\ isDragging' = FALSE
    /\ ev' = Event("DragLeave", Null, 0)
    /\ UNCHANGED <<isJarDropLoading, jarDropBuild, tasks, selectVars>>

\* drop listener, with e.dataTransfer.files = files
Drop(files) ==
    /\ ~crashed
    /\ isDragging' = FALSE
    /\ isJarDropLoading' = TRUE
    /\ IF ~InRange(files, 0)
       THEN tasks' = tasks
       ELSE /\ Len(tasks) < MaxDrops
            /\ tasks' = Append(tasks, [file |-> files[1], stage |-> Reading,
                                       overlaps |-> \E i \in 1..Len(tasks) :
                                                       Outstanding(tasks[i])])
    /\ ev' = Event("Drop", Null, Len(files))
    /\ UNCHANGED <<jarDropBuild, selectVars>>

\* reader.onload of task i, up to its first await
ReaderLoad(i) ==
    /\ ~crashed
    /\ i \in 1..Len(tasks)
    /\ tasks[i].stage = Reading
    /\ isJarDropLoading' = TRUE
    /\ tasks' = [tasks EXCEPT ![i].stage = Digesting]
    /\ ev' = Event("ReaderLoad", Null, i)
    /\ UNCHANGED <<isDragging, jarDropBuild, selectVars>>

\* The read of task i fails; the reader has no onerror handler.
ReaderFails(i) ==
    /\ ~crashed
    /\ i \in 1..Len(tasks)
    /\ tasks[i].stage = Reading
    /\ tasks' = [tasks EXCEPT ![i].stage = ReadError]
    /\ ev' = Event("ReaderFails", Null, i)
    /\ UNCHANGED <<isDragging, isJarDropLoading, jarDropBuild, selectVars>>

\* The digest of task i resolves; onload formats it and calls apiGetBuild.
DigestDone(i) ==
    /\ ~crashed
    /\ i \in 1..Len(tasks)
    /\ tasks[i].stage = Digesting
    /\ tasks' = [tasks EXCEPT ![i].stage = LookingUp]
    /\ ev' = Event("DigestDone", Null, i)
    /\ UNCHANGED <<isDragging, isJarDropLoading, jarDropBuild, selectVars>>

\* The digest of task i rejects, outside the try block.
DigestFails(i) ==
    /\ ~crashed
    /\ i \in 1..Len(tasks)
    /\ tasks[i].stage = Digesting
    /\ tasks' = [tasks EXCEPT ![i].stage = DigestError]
    /\ ev' = Event("DigestFails", Null, i)
    /\ UNCHANGED <<isDragging, isJarDropLoading, jarDropBuild, selectVars>>

\* apiGetBuild of task i resolves: the rest of the try block.
LookupResolves(i) ==
    /\ ~crashed
    /\ i \in 1..Len(tasks)
    /\ tasks[i].stage = LookingUp
    /\ apiGetBuild(tasks[i].file) # NoBuild
    /\ jarDropBuild' = apiGetBuild(tasks[i].file)
    /\ isJarDropLoading' = FALSE
    /\ tasks' = [tasks EXCEPT ![i].stage = Resolved]
    /\ ev' = Event("LookupResolves", Null, i)
    /\ UNCHANGED <<isDragging, selectVars>>

\* apiGetBuild of task i rejects (not found, or the network): the catch block.
LookupFails(i) ==
    /\ ~crashed
    /\ i \in 1..Len(tasks)
    /\ tasks[i].stage = LookingUp
    /\ isJarDropLoading' = FALSE
    /\ tasks' = [tasks EXCEPT ![i].stage = Failed]
    /\ ev' = Event("LookupFails", Null, i)
    /\ UNCHANGED <<isDragging, jarDropBuild, selectVars>>

\* open prop of the drop Drawer
DropDrawerOpen == isDragging \/ isJarDropLoading \/ jarDropBuild # NoBuild

\* DropOpenChange that closes without calling setJarDropBuild(undefined).
DropOpenChangeKeepsBuild(open) ==
    /\ ~crashed
    /\ IF isJarDropLoading
       THEN UNCHANGED <<isDragging, jarDropBuild>>
       ELSE /\ isDragging' = open
            /\ jarDropBuild' = jarDropBuild
    /\ ev' = Event("DropOpenChange", Null, IF open THEN 1 ELSE 0)
    /\ UNCHANGED <<isJarDropLoading, tasks, selectVars>>

\* DropOpenChange without its early return while isJarDropLoading.
DropOpenChangeUnguarded(open) ==
    /\ ~crashed
    /\ isDragging' = open
    /\ jarDropBuild' = IF ~open THEN NoBuild ELSE jarDropBuild
    /\ ev' = Event("DropOpenChange", Null, IF open THEN 1 ELSE 0)
    /\ UNCHANGED <<isJarDropLoading, tasks, selectVars>>

\* onOpenChange of the drop Drawer
DropOpenChange(open) ==
    /\ ~crashed
    /\ IF isJarDropLoading
       THEN UNCHANGED <<isDragging, jarDropBuild>>
       ELSE /\ isDragging' = open
            /\ jarDropBuild' = IF ~open THEN NoBuild ELSE jarDropBuild
    /\ ev' = Event("DropOpenChange", Null, IF open THEN 1 ELSE 0)
    /\ UNCHANGED <<isJarDropLoading, tasks, selectVars>>

----------------------------------------------------------------------------
(* Specifications *)

Flags == {"undefined", "true", "false"}

\* The state after the first render, with the query parameters t, v, flag.
InitWith(t, v, flag) ==
    /\ includeSnapshots = flag
    /\ type = t
    /\ version = v
    /\ build = NoBuild
    /\ isDragging = FALSE
    /\ isJarDropLoading = FALSE
    /\ jarDropBuild = NoBuild
    /\ types = NoData
    /\ versionsCache = [k \in TypeIds |-> NoData]
    /\ buildsCache = [k \in BuildKeys |-> NoData]
    /\ versionsPending = VersionsRequests([k \in TypeIds |-> NoData], {}, t)
    /\ buildsPending = BuildsRequests([k \in BuildKeys |-> NoData], {}, t, v)
    /\ crashed = FALSE
    /\ tasks = <<>>
    /\ ev = [op |-> "Init", key |-> Null, type |-> t, version |-> v,
             build |-> NoBuild, n |-> 0]

\* A page opened without query parameters, or from a link the page itself
\* produced: a version only of the type it names.
Init ==
    \E t \in TypeIds \cup {Null}, v \in AllVersionIds \cup {Null}, flag \in Flags :
        /\ v # Null => (t # Null /\ v \in CatalogVersionIds(t))
        /\ InitWith(t, v, flag)

\* A page opened with any query parameters.
InitAnyLink ==
    \E t \in TypeIds \cup {Null}, v \in AllVersionIds \cup {Null} :
        InitWith(t, v, "undefined")

InitNoLink == InitWith(Null, Null, "undefined")

SelectNext ==
    \/ TypesArrive(CatalogTypes)
    \/ \E t \in TypeIds : VersionsArrive(t, CatalogVersions(t))
    \/ \E k \in BuildKeys : BuildsArrive(k, CatalogBuilds(k))
    \/ \E t \in TypeIds : SelectType(t)
    \/ \E i \in 1..MaxVersions : SelectVersion(i)
    \/ ToggleSnapshots
    \/ \E i \in 1..MaxBuilds : OpenBuild(i)
    \/ \E open \in BOOLEAN : BuildOpenChange(open)

ReconcileNext ==
    \/ \E T \in TypeLists : TypesArrive(T)
    \/ \E t \in TypeIds, V \in VersionLists : VersionsArrive(t, V)

DropNext ==
    \/ DragEnter
    \/ DragOver
    \/ DragLeave
    \/ \E files \in FileLists : Drop(files)
    \/ \E i \in 1..MaxDrops : ReaderLoad(i)
    \/ \E i \in 1..MaxDrops : ReaderFails(i)
    \/ \E i \in 1..MaxDrops : DigestDone(i)
    \/ \E i \in 1..MaxDrops : DigestFails(i)
    \/ \E i \in 1..MaxDrops : LookupResolves(i)
    \/ \E i \in 1..MaxDrops : LookupFails(i)
    \/ \E open \in BOOLEAN : DropOpenChange(open)

RenderNext ==
    \/ \E T \in TypeLists : TypesArrive(T)
    \/ \E t \in TypeIds, V \in VersionLists : VersionsArrive(t, V)
    \/ ToggleSnapshots

Next == SelectNext \/ DropNext

Spec == Init /\ [][Next]_vars

\* The selection state machine against the catalog above.
SpecSelect == Init /\ [][SelectNext]_vars

\* The two auto-select effects against every response within the bounds.
SpecReconcile == InitAnyLink /\ [][ReconcileNext]_vars

\* A page opened with any query parameters, the snapshots flag included.
InitAnyLinkAnyFlag ==
    \E t \in TypeIds \cup {Null}, v \in AllVersionIds \cup {Null}, flag \in Flags :
        InitWith(t, v, flag)

\* The version column's filter against every response within the bounds.
SpecRender == InitAnyLinkAnyFlag /\ [][RenderNext]_vars

\* The fingerprint flow.
SpecDrop == InitNoLink /\ [][DropNext]_vars


----------------------------------------------------------------------------
(* Properties of the fingerprint flow, checked under SpecDrop *)

\* C1: after a drop whose payload holds no file the flow is Idle: isDragging
\* and isJarDropLoading are false, jarDropBuild is unset and no read is
\* under way.
C1_EmptyDropEndsIdle ==
    (ev.op = "Drop" /\ ev.n = 0) =>
        /\ ~isDragging
        /\ ~isJarDropLoading
        /\ jarDropBuild = NoBuild
        /\ \A i \in 1..Len(tasks) : ~Outstanding(tasks[i])

\* C2: last drop wins: the completion of a drop's lookup that a later drop
\* has overtaken writes neither jarDropBuild nor isJarDropLoading.
C2_LastDropWins ==
    [][\A i \in 1..Len(tasks) :
          (/\ i < Len(tasks)
           /\ tasks[i].stage = LookingUp
           /\ tasks'[i].stage \in {Resolved, Failed})
          => (jarDropBuild' = jarDropBuild /\ isJarDropLoading' = isJarDropLoading)]_vars

\* C7: whenever a lookup fails the flow is in the neutral empty-result
\* state: isJarDropLoading is false and no build is displayed, whatever
\* came before.  Stated of the histories in which no drop overtook another,
\* where C2 plays no part.
C7_FailureShowsNoBuild ==
    (ev.op = "LookupFails" /\ \A i \in 1..Len(tasks) : ~tasks[i].overlaps)
    => (~isJarDropLoading /\ jarDropBuild = NoBuild)

\* C8: isJarDropLoading is true as long as the read, digest or lookup of
\* some drop is outstanding.
C8_LoadingWhileOutstanding ==
    (\E i \in 1..Len(tasks) : Outstanding(tasks[i])) => isJarDropLoading

----------------------------------------------------------------------------
(* Properties of the auto-select effects, checked under SpecReconcile *)

\* C3: when the version list of the current type arrives non-empty, without
\* the selected version and without a release-like entry, the selected
\* version becomes the derived identifier of its first entry.
C3_FallbackToFirstEntry ==
    LET V == versionsCache[ev.key].data IN
    (/\ ev.op = "VersionsArrive"
     /\ ev.key = type
     /\ Len(V) >= 1
     /\ \A i \in 1..Len(V) : DerivedId(V[i]) # ev.version
     /\ \A i \in 1..Len(V) : V[i].type = "SNAPSHOT")
    => (~crashed /\ version = DerivedId(V[1]))

\* C4: when the version list of the current type arrives with a
\* release-like entry, a selected version the list holds is kept, and
\* otherwise the selected version becomes the derived identifier of the
\* first release-like entry in list order.
C4_ReleasePrecedence ==
    LET V == versionsCache[ev.key].data IN
    (/\ ev.op = "VersionsArrive"
     /\ ev.key = type
     /\ \E i \in 1..Len(V) : V[i].type \in {"RELEASE", Null})
    => /\ ~crashed
       /\ IF \E i \in 1..Len(V) : DerivedId(V[i]) = ev.version
          THEN version = ev.version
          ELSE \E i \in 1..Len(V) :
                  /\ V[i].type \in {"RELEASE", Null}
                  /\ \A j \in 1..(i - 1) : V[j].type = "SNAPSHOT"
                  /\ version = DerivedId(V[i])

\* A list whose first entry is a snapshot arrived and the second entry, the
\* first release-like one, was selected in place of an absent version.
C4_Witness ==
    LET V == versionsCache[ev.key].data IN
    /\ ev.op = "VersionsArrive"
    /\ ev.key = type
    /\ Len(V) = 2
    /\ V[1].type = "SNAPSHOT"
    /\ V[2].type \in {"RELEASE", Null}
    /\ ev.version # Null
    /\ \A i \in 1..Len(V) : DerivedId(V[i]) # ev.version
    /\ DerivedId(V[1]) # DerivedId(V[2])
    /\ version = DerivedId(V[2])

\* C9: no reconciliation step throws, and the arrival of an empty types list
\* with no type selected, or of an empty version list of the current type,
\* leaves type and version as they were.
C9_NoCrashOnEmptyLists ==
    /\ ~crashed
    /\ (ev.op = "TypesArrive" /\ ev.type = Null /\ Len(types.data) = 0)
          => (type = ev.type /\ version = ev.version)
    /\ (ev.op = "VersionsArrive" /\ ev.key = type /\ Len(versionsCache[ev.key].data) = 0)
          => (type = ev.type /\ version = ev.version)

\* C10: when a types list with at least one entry arrives, the selected type
\* becomes its first entry's identifier if no type was selected, and stays
\* as it was otherwise, also when the list does not hold it.
C10_TypeAutoSelect ==
    (ev.op = "TypesArrive" /\ Len(types.data) >= 1)
    => type = (IF ev.type = Null THEN types.data[1].identifier ELSE ev.type)

\* A two-entry types list arrived with no type selected and its first entry
\* was selected.
C10_Witness ==
    /\ ev.op = "TypesArrive"
    /\ ev.type = Null
    /\ Len(types.data) = 2
    /\ types.data[1] # types.data[2]
    /\ type = types.data[1].identifier

----------------------------------------------------------------------------
(* Properties of the selection state machine, checked under SpecSelect *)

\* C5: right after the user selects another type, while that type's version
\* list has not arrived, no version is selected and no build is open.
C5_TypeSwitchClears ==
    (ev.op = "SelectType" /\ ~versionsCache[type].has)
    => (version = Null /\ build = NoBuild)

\* C6: a selected version is one of the selected type's versions, and an open
\* build is a build of the selected type and version.
C6_SelectionConsistency ==
    /\ version # Null => (type # Null /\ version \in CatalogVersionIds(type))
    /\ build # NoBuild =>
          /\ build.type = type
          /\ (IF build.versionId # Null THEN build.versionId
              ELSE build.projectVersionId) = version

----------------------------------------------------------------------------
(* Properties of the catalog cache, checked under SpecSelect *)

\* C11: a versions or builds response for a key other than the current
\* ['versions', type] / ['builds', type, version] changes neither the
\* selection nor the data rendered for the current keys, and runs no
\* auto-selection.
C11_StaleResponseIgnored ==
    [][((\E t \in TypeIds : t # type /\ versionsCache'[t] # versionsCache[t])
        \/ (\E k \in BuildKeys :
               k # <<type, version>> /\ buildsCache'[k] # buildsCache[k]))
       => /\ type' = type
          /\ version' = version
          /\ build' = build
          /\ crashed' = crashed
          /\ (type # Null => versionsCache'[type] = versionsCache[type])
          /\ (<<type, version>> \in BuildKeys =>
                buildsCache'[<<type, version>>] = buildsCache[<<type, version>>])]_vars

\* The versions response of the type the user left arrived while the list
\* of the type now selected is still outstanding.
C11_Witness ==
    /\ ev.op = "VersionsArrive"
    /\ ev.key # type
    /\ versionsCache[ev.key].has
    /\ type \in versionsPending
    /\ version = ev.version

----------------------------------------------------------------------------
(* Properties of the drop Drawer, checked under SpecDrop *)

\* C12: a dismissal of the drop Drawer (onOpenChange(false)) while the flow
\* is not hashing leaves it Idle: isDragging is false and jarDropBuild unset.
C12_DismissalResets ==
    [][(ev'.op = "DropOpenChange" /\ ev'.n = 0 /\ ~isJarDropLoading)
       => (~isDragging' /\ jarDropBuild' = NoBuild /\ ~isJarDropLoading')]_vars

\* A drop was resolved, its build displayed, and a dismissal has put the
\* flow back to Idle.
C12_Witness ==
    /\ ev.op = "DropOpenChange"
    /\ ev.n = 0
    /\ \E i \in 1..Len(tasks) : tasks[i].stage = Resolved
    /\ \A i \in 1..Len(tasks) : ~Outstanding(tasks[i])
    /\ ~isJarDropLoading
    /\ ~isDragging
    /\ jarDropBuild = NoBuild

----------------------------------------------------------------------------
(* Properties of the build Drawer, checked under SpecSelect *)

\* C13: closing the build panel (onOpenChange(false) of the build Drawer)
\* unsets the open build and changes neither type, version,
\* includeSnapshots nor any state of the fingerprint flow.
C13_CloseBuildFrame ==
    [][(ev'.op = "BuildOpenChange" /\ ev'.n = 0)
       => /\ build' = NoBuild
          /\ UNCHANGED <<type, version, includeSnapshots, isDragging,
                         isJarDropLoading, jarDropBuild, tasks>>]_vars

\* A build of the selected type and version was open and has been closed.
C13_Witness ==
    /\ ev.op = "BuildOpenChange"
    /\ ev.n = 0
    /\ ev.build # NoBuild
    /\ ev.build.type = type
    /\ build = NoBuild
    /\ type = ev.type
    /\ version = ev.version
    /\ version # Null

----------------------------------------------------------------------------
(* Properties of the rendered version list, checked under SpecRender *)

\* C14: the rendered version list holds, in the list's order, exactly the
\* entries that are RELEASE or untagged or the selected one when
\* includeSnapshots is false or unset, and every entry when it is true; the
\* selected version is never filtered out.
C14_SnapshotFilter ==
    (type # Null /\ versionsCache[type].has) =>
        LET V == versionsCache[type].data
            R == RenderedVersions(V, version, includeSnapshots)
            Keep(i) == \/ includeSnapshots = "true"
                       \/ V[i].type \in {"RELEASE", Null}
                       \/ DerivedId(V[i]) = version
            I == { i \in 1..Len(V) : Keep(i) }
        IN  /\ Len(R) = Cardinality(I)
            /\ \A k \in 1..Len(R) :
                  \E i \in I : /\ Cardinality({ j \in I : j < i }) = k - 1
                               /\ R[k] = V[i]
            /\ \A i \in 1..Len(V) :
                  DerivedId(V[i]) = version => \E k \in 1..Len(R) : R[k] = V[i]

\* With snapshots excluded, a list of two snapshots is rendered as the
\* selected one alone.
C14_Witness ==
    /\ type # Null
    /\ versionsCache[type].has
    /\ includeSnapshots # "true"
    /\ LET V == versionsCache[type].data IN
        /\ Len(V) = 2
        /\ V[1].type = "SNAPSHOT"
        /\ V[2].type = "SNAPSHOT"
        /\ DerivedId(V[1]) # version
        /\ DerivedId(V[2]) = version
        /\ RenderedVersions(V, version, includeSnapshots) = <<V[2]>>

----------------------------------------------------------------------------
(* Properties of the fetchers, checked under SpecReconcile *)

\* C15: no versions request is in flight for an unset type and no builds
\* request for an unset type or version; while type is unset no request is
\* in flight at all and the versions and builds data are undefined, and
\* while version is unset no builds request is in flight and the builds data
\* is undefined.
C15_UnresolvedKeysNotFetched ==
    /\ Null \notin versionsPending
    /\ \A k \in buildsPending : k[1] # Null /\ k[2] # Null
    /\ type = Null =>
          /\ versionsPending = {}
          /\ buildsPending = {}
          /\ \A t \in TypeIds : ~versionsCache[t].has
    /\ (type = Null \/ version = Null) =>
          /\ buildsPending = {}
          /\ \A k \in BuildKeys : ~buildsCache[k].has

\* The types arrived and the first was selected while no version is
\* selected: its versions request is in flight, no builds request is.
C15_Witness ==
    /\ ev.op = "TypesArrive"
    /\ ev.type = Null
    /\ type # Null
    /\ version = Null
    /\ versionsPending = {type}
    /\ buildsPending = {}

----------------------------------------------------------------------------
(* Termination of the fingerprint flow, checked under SpecDrop *)

\* C16: hashing always ends.  Once the read, digest and lookup of every drop
\* have come to their end, whatever their outcomes, the flow has left the
\* in-progress state: isJarDropLoading is false.
C16_HashingEnds ==
    (/\ ev.op \in {"ReaderFails", "DigestFails", "LookupResolves", "LookupFails"}
     /\ \A i \in 1..Len(tasks) : ~Outstanding(tasks[i]))
    => ~isJarDropLoading

----------------------------------------------------------------------------
(* Builds requests, checked under SpecSelect *)

\* C17: a builds request is issued only for a (type, version) pair whose
\* version is one of the type's versions.
C17_BuildsRequestsConsistent ==
    \A k \in BuildKeys :
        (k \in buildsPending \/ buildsCache[k].has) => k[2] \in CatalogVersionIds(k[1])

----------------------------------------------------------------------------
(* Convergence of the version effect, checked under SpecReconcile *)

\* C18: when a version list with a release-like entry arrives for the
\* current type, one run of the version auto-select effect reaches the
\* version that is selected afterwards, that version is among the list's
\* derived identifiers, and a further run changes nothing.
C18_VersionEffectConverges ==
    LET V == versionsCache[ev.key] IN
    (/\ ev.op = "VersionsArrive"
     /\ ev.key = type
     /\ \E i \in 1..Len(V.data) : V.data[i].type \in {"RELEASE", Null})
    => LET once == VersionEffect(V, ev.version)
           twice == VersionEffect(V, once.version)
       IN  /\ ~crashed
           /\ ~once.crashed
           /\ version = once.version
           /\ twice = once
           /\ \E i \in 1..Len(V.data) :
                 (IF V.data[i].latest.versionId # Null
                  THEN V.data[i].latest.versionId
                  ELSE V.data[i].latest.projectVersionId) = version

\* A list with a release-like entry arrived without the selected version,
\* and the effect replaced it by one the list holds.
C18_Witness ==
    LET V == versionsCache[ev.key] IN
    /\ ev.op = "VersionsArrive"
    /\ ev.key = type
    /\ ev.version # Null
    /\ \A i \in 1..Len(V.data) : DerivedId(V.data[i]) # ev.version
    /\ \E i \in 1..Len(V.data) : V.data[i].type \in {"RELEASE", Null}
    /\ version # ev.version
    /\ \E i \in 1..Len(V.data) : DerivedId(V.data[i]) = version

----------------------------------------------------------------------------
(* The drop Drawer while hashing, checked under SpecDrop *)

\* C19: while isJarDropLoading is true an open change of the drop Drawer,
\* with either value, leaves isDragging, isJarDropLoading and jarDropBuild
\* as they are.
C19_DismissalIgnoredWhileHashing ==
    [][(ev'.op = "DropOpenChange" /\ isJarDropLoading)
       => UNCHANGED <<isDragging, isJarDropLoading, jarDropBuild>>]_vars

\* A dismissal was attempted while a drop was being identified, with a drag
\* over the page and an earlier build displayed: all three are kept.
C19_Witness ==
    /\ ev.op = "DropOpenChange"
    /\ ev.n = 0
    /\ isJarDropLoading
    /\ isDragging
    /\ jarDropBuild # NoBuild
    /\ \E i \in 1..Len(tasks) : Outstanding(tasks[i])

====
